---- MODULE Spec2Model ----
(***************************************************************************)
(* Model of the Snyk scan backend: the /api/scan request handler (clone,   *)
(* scanner invocation, output parsing, normalisation, planning, workspace  *)
(* cleanup) and the process-wide ActionPlanAgent (lazily created remote    *)
(* agent, delegated plan generation with deterministic fallback).          *)
(*                                                                         *)
(* Every `await` of the handler is a point where another request may run,  *)
(* so each action below is the synchronous run of code between two awaits. *)
(***************************************************************************)
EXTENDS Integers, Sequences, FiniteSets, TLC

\* ------------------------------------------------------------------ bounds
\* number of scan requests the process handles (possibly concurrently)
NumReq == 2

Requests == 1..NumReq

\* number of requests whose input and external calls (mkdtemp, clone, scanner,
\* rm) range over every outcome; the remaining requests are well-formed, their
\* calls succeed and their scanner prints the one-finding report, so that they
\* only compete for the planning agent
FullReq == 1

\* success (TRUE) / failure (FALSE) outcomes of an external call of request r
Outcomes(r) == IF r <= FullReq THEN BOOLEAN ELSE {TRUE}

\* ------------------------------------------------------- JS value helpers
\* Strings: "" is the falsy / missing string.
Truthy(s) == s # ""

RECURSIVE Contains(_, _)
Contains(seq, x) ==
  IF seq = <<>> THEN FALSE
  ELSE IF Head(seq) = x THEN TRUE ELSE Contains(Tail(seq), x)

\* [...new Set(seq)] : distinct elements in first-seen order
RECURSIVE Dedupe(_, _)
Dedupe(seq, acc) ==
  IF seq = <<>> THEN acc
  ELSE Dedupe(Tail(seq), IF Contains(acc, Head(seq)) THEN acc ELSE Append(acc, Head(seq)))

\* Array.prototype.slice(0, n)
Slice(seq, n) == SubSeq(seq, 1, IF Len(seq) < n THEN Len(seq) ELSE n)

\* Array.prototype.join(sep)
RECURSIVE Join(_, _)
Join(seq, sep) ==
  IF seq = <<>> THEN ""
  ELSE IF Len(seq) = 1 THEN Head(seq)
  ELSE Head(seq) \o sep \o Join(Tail(seq), sep)

RECURSIVE MapPackageName(_)
MapPackageName(issues) ==
  IF issues = <<>> THEN <<>>
  ELSE <<Head(issues).packageName>> \o MapPackageName(Tail(issues))

\* Array.prototype.some(Boolean) on an upgrade path
RECURSIVE SomeTruthy(_)
SomeTruthy(seq) ==
  IF seq = <<>> THEN FALSE
  ELSE IF Truthy(Head(seq)) THEN TRUE ELSE SomeTruthy(Tail(seq))

\* ------------------------------------------------------ actionPlanAgent.js
\* the list written from the least severe
severityOrderAscending == <<"low", "medium", "high", "critical">>

severityOrder == <<"critical", "high", "medium", "low">>

MaxListed == 5

\* the suffix appended when names were left out (the source writes the
\* one-character ellipsis after the comma)
Ellipsis == ", ..."

\* summarizePackages: "" stands for the null result
summarizePackages(issues) ==
  LET packages == SelectSeq(MapPackageName(issues), Truthy)
      unique   == Slice(Dedupe(packages, <<>>), MaxListed)
      list     == Join(unique, ", ")
  IN IF Len(unique) = 0 THEN ""
     ELSE IF Len(packages) > Len(unique) THEN list \o Ellipsis ELSE list

\* severity.charAt(0).toUpperCase() + severity.slice(1)
Capitalize(severity) ==
  CASE severity = "critical" -> "Critical"
    [] severity = "high"     -> "High"
    [] severity = "medium"   -> "Medium"
    [] severity = "low"      -> "Low"
    [] OTHER                 -> severity

HintUpgrade == "upgrade dependencies to secure versions"
HintPatch == "apply available patches"

SetAdd(seq, x) == IF Contains(seq, x) THEN seq ELSE Append(seq, x)

\* the fixHints Set, in insertion order
RECURSIVE fixHints(_, _)
fixHints(issues, acc) ==
  IF issues = <<>> THEN acc
  ELSE LET issue == Head(issues)
           a1 == IF issue.upgradePathIsArray /\ SomeTruthy(issue.upgradePath)
                 THEN SetAdd(acc, HintUpgrade) ELSE acc
           a2 == IF issue.isPatched THEN SetAdd(a1, HintPatch) ELSE a1
       IN fixHints(Tail(issues), a2)

issuesOfSeverity(issues, severity) ==
  SelectSeq(issues, LAMBDA issue : issue.severity = severity)

severityStep(issues, severity) ==
  LET packages    == summarizePackages(issues)
      title       == Capitalize(severity) \o " vulnerabilities"
      hints       == fixHints(issues, <<>>)
      hintText    == IF Len(hints) > 0 THEN " (" \o Join(hints, " or ") \o ")" ELSE ""
      packageText == IF Truthy(packages) THEN " (" \o packages \o ")" ELSE ""
  IN "Resolve " \o title \o " first" \o packageText \o hintText \o "."

RECURSIVE severitySteps(_, _)
severitySteps(issues, order) ==
  IF order = <<>> THEN <<>>
  ELSE LET bucket == issuesOfSeverity(issues, Head(order))
       IN (IF Len(bucket) = 0 THEN <<>> ELSE <<severityStep(bucket, Head(order))>>)
          \o severitySteps(issues, Tail(order))

StepRestoreAccess == "Restore repository access so automated scans can run."
StepAutomate == "Add automated dependency updates (Dependabot, Renovate) and enforce Snyk scans in CI."
\* (the source writes snyk test between backquotes)
StepRerun == "Re-run snyk test after applying fixes to confirm a clean report."

licenseStep(licenses) ==
  LET licensePkgs == summarizePackages(licenses)
  IN "Review license findings"
       \o (IF Truthy(licensePkgs) THEN " for " \o licensePkgs ELSE "")
       \o " with legal/compliance teams."

Plan(steps, noAction, source) ==
  [steps |-> steps, noAction |-> noAction, source |-> source]

\* the guard as it would act if the Array.isArray(issues) return came first
accessLostAfterArrayCheck(scanResult) ==
  ~scanResult.repositoryAccessible /\ scanResult.issuesIsArray

\* the guard of the early return for a repository that could not be read
accessLost(scanResult) == ~scanResult.repositoryAccessible

\* the license step, pushed when scanResult.licenses is a non-empty array
licenseSteps(scanResult) ==
  IF scanResult.licensesIsArray /\ Len(scanResult.licenses) > 0
  THEN <<licenseStep(scanResult.licenses)>> ELSE <<>>

\* the two pushes in the other order
closingStepsSwapped == <<StepRerun, StepAutomate>>

\* the two steps pushed when scanResult.issues is not empty
closingSteps == <<StepAutomate, StepRerun>>

\* a final return carrying the last step of the synchronous generate
emptyIssuesPlanInformational(steps) ==
  Plan(<<"No vulnerabilities found. Schedule recurring scans and keep dependencies updated.">>,
       TRUE, "fallback")

\* the final return of generateFallback, reached with an empty issue list:
\* the steps collected so far are not part of it
emptyIssuesPlan(steps) == Plan(<<>>, TRUE, "fallback")

\* ActionPlanAgent.generateFallback
generateFallback(scanResult) ==
  IF ~scanResult.isObject THEN Plan(<<>>, TRUE, "fallback")
  ELSE IF accessLost(scanResult)
       THEN Plan(<<StepRestoreAccess>>, FALSE, "fallback")
  ELSE IF ~scanResult.issuesIsArray THEN Plan(<<>>, TRUE, "fallback")
  ELSE LET steps == severitySteps(scanResult.issues, severityOrder)
                      \o licenseSteps(scanResult)
       IN IF Len(scanResult.issues) > 0
          THEN Plan(steps \o closingSteps, FALSE, "fallback")
          ELSE emptyIssuesPlan(steps)

\* ------------------------------------- src/actionPlanAgent.js (synchronous)
StepNoVulnerabilities == "No vulnerabilities found. Schedule recurring scans and keep dependencies updated."

\* the last push of the synchronous generate
lastSteps(issues) ==
  IF Len(issues) > 0 THEN closingSteps ELSE <<StepNoVulnerabilities>>

\* ActionPlanAgent.generate of src/actionPlanAgent.js: the plan is the bare
\* array of steps; its summarizePackages, severity loop and license step are
\* the same text as in the asynchronous agent
generateSync(scanResult) ==
  IF ~scanResult.isObject THEN <<>>
  ELSE IF accessLost(scanResult) THEN <<StepRestoreAccess>>
  ELSE IF ~scanResult.issuesIsArray THEN <<>>
  ELSE severitySteps(scanResult.issues, severityOrder)
         \o licenseSteps(scanResult)
         \o lastSteps(scanResult.issues)

\* ---------------------------------------------------------------- index.js
\* A raw scanner finding.  isNull marks a JSON null in the list; severity and
\* packageName are "" when the field is missing.
RawItem(severity, packageName, upgradePath, isPatched) ==
  [isNull |-> FALSE, severity |-> severity, packageName |-> packageName,
   upgradePathIsArray |-> TRUE, upgradePath |-> upgradePath, isPatched |-> isPatched]

NullItem ==
  [isNull |-> TRUE, severity |-> "", packageName |-> "",
   upgradePathIsArray |-> FALSE, upgradePath |-> <<>>, isPatched |-> FALSE]

\* A parsed scanner payload.  error / userMessage are "" when missing or falsy;
\* nestedIsArray says whether payload.issues.vulnerabilities is an array,
\* legacyIsArray whether payload.vulnerabilities is.
Payload(isNull, error, userMessage, ok, legacyIsArray, legacy, nestedIsArray, nested, licenses) ==
  [isNull |-> isNull, error |-> error, userMessage |-> userMessage, ok |-> ok,
   legacyIsArray |-> legacyIsArray, legacy |-> legacy,
   nestedIsArray |-> nestedIsArray, nested |-> nested,
   licensesIsArray |-> licenses # <<>>, licenses |-> licenses]

NoPayload == Payload(TRUE, "", "", FALSE, FALSE, <<>>, FALSE, <<>>, <<>>)

\* payload?.issues?.vulnerabilities, else payload?.vulnerabilities, else []
rawIssues(payload) ==
  IF payload.isNull THEN <<>>
  ELSE IF payload.nestedIsArray THEN payload.nested
  ELSE IF payload.legacyIsArray THEN payload.legacy ELSE <<>>

rawLicenses(payload) ==
  IF payload.isNull \/ ~payload.licensesIsArray THEN <<>> ELSE payload.licenses

\* a count that only tests that the finding has a severity
countSeverityAny(items, severity) ==
  Len(SelectSeq(items, LAMBDA item : Truthy(item.severity)))

RECURSIVE countSeverity(_, _)
countSeverity(items, severity) ==
  IF items = <<>> THEN 0
  ELSE (IF Truthy(Head(items).severity) /\ Head(items).severity = severity THEN 1 ELSE 0)
       + countSeverity(Tail(items), severity)

counters(items) ==
  [critical |-> countSeverity(items, "critical"), high |-> countSeverity(items, "high"),
   medium |-> countSeverity(items, "medium"), low |-> countSeverity(items, "low")]

mapIssue(item) ==
  [severity |-> item.severity, packageName |-> item.packageName,
   upgradePathIsArray |-> TRUE,
   upgradePath |-> IF item.upgradePathIsArray THEN item.upgradePath ELSE <<>>,
   isPatched |-> item.isPatched]

mapLicense(item) ==
  [severity |-> item.severity, packageName |-> item.packageName]

\* Array.prototype.map
MapSeq(seq, F(_)) == [i \in 1..Len(seq) |-> F(seq[i])]

\* as if the issue entries were read with optional chaining: only a null
\* license entry raises
formatThrowsLicensesOnly(payload) ==
  \E i \in 1..Len(rawLicenses(payload)) : rawLicenses(payload)[i].isNull

\* reading a property of a null list entry raises a TypeError
formatThrows(payload) ==
  \/ \E i \in 1..Len(rawIssues(payload)) : rawIssues(payload)[i].isNull
  \/ \E i \in 1..Len(rawLicenses(payload)) : rawLicenses(payload)[i].isNull

\* formatSnykPayload, for payloads on which it does not throw
formatSnykPayload(payload) ==
  [isObject |-> TRUE,
   ok |-> (~payload.isNull /\ payload.ok),
   summary |-> counters(rawIssues(payload)),
   issuesIsArray |-> TRUE,
   issues |-> MapSeq(rawIssues(payload), mapIssue),
   licensesIsArray |-> TRUE,
   licenses |-> MapSeq(rawLicenses(payload), mapLicense),
   repositoryAccessible |-> TRUE]

\* ------------------------------------------------ scanner output and JSON
TextEmpty == ""
TextGarbage == "Usage: snyk test"
TextNull == "null"
TextError == "{\"ok\":false,\"error\":\"Could not detect supported target files\"}"
TextUserMessage == "{\"userMessage\":\"Authentication failed\"}"
TextClean == "{\"ok\":true,\"vulnerabilities\":[]}"
TextVuln == "{\"ok\":false,\"vulnerabilities\":[{\"severity\":\"high\",\"packageName\":\"lodash\",\"upgradePath\":[false,\"lodash@4.17.21\"]}]}"
TextNullItem == "{\"vulnerabilities\":[null]}"

\* what the scanner may write on standard output
ScannerOutputs ==
  {TextEmpty, TextGarbage, TextNull, TextError, TextUserMessage, TextClean, TextVuln,
   TextNullItem}

outputsFor(r) == IF r <= FullReq THEN ScannerOutputs ELSE {TextVuln}

\* JSON.parse on those texts: ok = FALSE when it throws a SyntaxError
JSONparse(text) ==
  CASE text = TextNull ->
         [ok |-> TRUE, value |-> NoPayload]
    [] text = TextError ->
         [ok |-> TRUE, value |-> Payload(FALSE, "Could not detect supported target files", "",
                                         FALSE, FALSE, <<>>, FALSE, <<>>, <<>>)]
    [] text = TextUserMessage ->
         [ok |-> TRUE, value |-> Payload(FALSE, "", "Authentication failed",
                                         FALSE, FALSE, <<>>, FALSE, <<>>, <<>>)]
    [] text = TextClean ->
         [ok |-> TRUE, value |-> Payload(FALSE, "", "", TRUE, TRUE, <<>>, FALSE, <<>>, <<>>)]
    [] text = TextVuln ->
         [ok |-> TRUE, value |-> Payload(FALSE, "", "", FALSE, TRUE,
                                   <<RawItem("high", "lodash", <<"", "lodash@4.17.21">>, FALSE)>>,
                                   FALSE, <<>>, <<>>)]
    [] text = TextNullItem ->
         [ok |-> TRUE, value |-> Payload(FALSE, "", "", FALSE, TRUE, <<NullItem>>,
                                         FALSE, <<>>, <<>>)]
    [] OTHER -> [ok |-> FALSE, value |-> NoPayload]

\* buildHelpfulErrorDetail: messages that mention authentication get the hint
MentionsAuth(details) == details \in {"Authentication failed", "snyk auth required"}

TokenHint == " Ensure the backend process has a valid SNYK_TOKEN environment variable."

buildHelpfulErrorDetail(details) ==
  IF MentionsAuth(details) THEN details \o TokenHint ELSE details

\* ------------------------------------------- delegated plan (remote reply)
\* What client.responses.create may produce: a rejection, a response with no
\* text, or a response whose text is the given JSON (or is not JSON).
Reply(kind, isNull, stepsIsArray, steps, no_action) ==
  [kind |-> kind, isNull |-> isNull, stepsIsArray |-> stepsIsArray,
   steps |-> steps, no_action |-> no_action]

Replies ==
  {Reply("reject", FALSE, FALSE, <<>>, FALSE),
   Reply("notext", FALSE, FALSE, <<>>, FALSE),
   Reply("badjson", FALSE, FALSE, <<>>, FALSE),
   Reply("json", TRUE, FALSE, <<>>, FALSE),
   Reply("json", FALSE, FALSE, <<>>, FALSE),
   Reply("json", FALSE, TRUE, <<>>, FALSE),
   Reply("json", FALSE, TRUE, <<"", "Upgrade lodash">>, FALSE),
   Reply("json", FALSE, TRUE, <<"Upgrade lodash">>, TRUE)}

NullPlan == Plan(<<>>, FALSE, "null")

IsNullPlan(plan) == plan.source = "null"

\* the try block of generateWithOpenAI once the agent is available
planFromReply(reply) ==
  IF reply.kind # "json" \/ reply.isNull THEN NullPlan
  ELSE LET steps == IF reply.stepsIsArray THEN SelectSeq(reply.steps, Truthy) ELSE <<>>
           noAction == reply.no_action \/ Len(steps) = 0
       IN Plan(steps, noAction, "openai")

\* ActionPlanAgent.generate, given what generateWithOpenAI returned
generate(aiPlan, scanResult) ==
  IF ~IsNullPlan(aiPlan) THEN aiPlan ELSE generateFallback(scanResult)

\* ---------------------------------------------------------------- responses
Response(status, error, details, hasRaw, rawOutput, plan) ==
  [status |-> status, error |-> error, details |-> details,
   hasRaw |-> hasRaw, rawOutput |-> rawOutput, plan |-> plan]

NoResponse == Response(0, "", "", FALSE, "", NullPlan)

invalidInputResponse ==
  Response(400, "A valid GitHub repository URL is required.", "", FALSE, "", NullPlan)

\* (variant: the clone error is reported without its message)
cloneFailureResponseBare(message) ==
  Response(400, "Failed to clone repository.", "", FALSE, "", NullPlan)

cloneFailureResponse(message) ==
  Response(400, "Failed to clone repository.", message, FALSE, "", NullPlan)

scanFailureResponse(details) ==
  Response(500, "Snyk scan failed.", buildHelpfulErrorDetail(details), FALSE, "", NullPlan)

toolErrorResponse(parsed) ==
  Response(502, "Snyk scan reported an error.",
           buildHelpfulErrorDetail(IF Truthy(parsed.userMessage)
                                   THEN parsed.userMessage ELSE parsed.error),
           FALSE, "", NullPlan)

\* a catch block that answers without the rawOutput field
parseFailureResponseNoRaw(message, scanOut) ==
  Response(500, "Unable to parse Snyk output.", message, FALSE, "", NullPlan)

parseFailureResponse(message, scanOut) ==
  Response(500, "Unable to parse Snyk output.", message, TRUE, scanOut, NullPlan)

successResponse(actionPlan) ==
  Response(200, "", "", FALSE, "", actionPlan)

\* (variant: only the error field is looked at)
reportsErrorFieldOnly(parsed) == ~parsed.isNull /\ Truthy(parsed.error)

\* parsed?.error || parsed?.userMessage
reportsError(parsed) ==
  ~parsed.isNull /\ (Truthy(parsed.error) \/ Truthy(parsed.userMessage))

\* (variant: any non-zero exit is a failure, whatever was printed)
stdoutUsableStrict(exitOk, stdout) == exitOk

\* a catch block that goes on to the parse block whatever it caught
stdoutUsableAlways(exitOk, stdout) == TRUE

\* the catch block of the scanner invocation: is there output to go on with?
stdoutUsable(exitOk, stdout) == exitOk \/ Truthy(stdout)

\* (variant: a removal that reports success but leaves the directory)
afterRmKept(removed, exists) == exists

\* fs.rm inside cleanUpDir: the directory is gone unless removal failed
afterRm(removed, exists) == IF removed THEN FALSE ELSE exists

\* (variant: the handle is not consulted before creating)
mustCreateAlways(ap) == TRUE

\* if (!this.agentPromise) in ensureAgent
mustCreate(ap) == ap = 0

\* the handle after the .catch handler attached to the creation has run
afterCatch(ap) == 0

\* (variant: the handle is cleared when the creation settles either way)
afterFulfilCleared(ap) == 0

\* a fulfilled creation has no handler that touches the handle
afterFulfil(ap) == ap

\* (variant: no finally block)
finallyBlockMissing(events) == events

\* the finally block of the parse/plan try statement
finallyBlock(events) == Append(events, "cleanup")

\* (variant: the early returns send their response without cleaning up)
earlyCleanUpMissing(events) == events

\* the early returns of the clone and scanner catch blocks
earlyCleanUp(events) == Append(events, "cleanup")

\* ------------------------------------------------------------------- state
VARIABLES
  pc,            \* per request: where its handler is suspended
  trace,         \* per request: the calls and sends its handler has made
  dirExists,     \* per request: its temp directory is on the filesystem
  scanOutput,    \* per request: the handler's scanOutput variable
  cloneErr,      \* per request: message of the error git.clone threw ("": none)
  exec,          \* per request: how execAsync settled (exit status, stdout, stderr)
  warned,        \* per request: cleanUpDir logged that removal failed
  response,      \* per request: the response sent (status 0: none)
  awaited,       \* per request: the creation it awaits in ensureAgent (0: null)
  client,        \* ActionPlanAgent.client is set
  agentPromise,  \* ActionPlanAgent.agentPromise (0: null, else creation id)
  promiseState,  \* per creation id: "unused", "pending", "rejected", "agent", "null"
  createCalls,   \* number of client.agents.create calls issued
  stage,         \* function runs: which function is applied next ("idle": none)
  givenPayload,  \* function runs: the parsed payload given to formatSnykPayload
  givenReport,   \* function runs: the report given to the planners
  fallbackPlan,  \* function runs: what generateFallback returned
  syncPlan,      \* function runs: what the synchronous generate returned
  givenIssues,   \* function runs: the list given to summarizePackages
  packageSummary \* function runs: what summarizePackages returned

\* the variables of the function runs; the server leaves them alone
fnVars == <<stage, givenPayload, givenReport, fallbackPlan, syncPlan, givenIssues,
            packageSummary>>

vars == <<pc, trace, dirExists, scanOutput, cloneErr, exec, warned, response, awaited,
          client, agentPromise, promiseState, createCalls, fnVars>>

reqVars == <<pc, trace, dirExists, scanOutput, cloneErr, exec, warned, response, awaited>>

Exec(settled, exitOk, stdout, stderr) ==
  [settled |-> settled, exitOk |-> exitOk, stdout |-> stdout, stderr |-> stderr]

NotRun == Exec(FALSE, FALSE, "", "")
agentVars == <<client, agentPromise, promiseState, createCalls>>

CloneErrors == {"fatal: repository not found"}
ScannerStderr == {"", "snyk auth required"}
ExecMessage == "Command failed: npx snyk test --json"

\* the server after start-up, before any request
ServerInit ==
  /\ pc = [r \in Requests |-> "idle"]
  /\ trace = [r \in Requests |-> <<>>]
  /\ dirExists = [r \in Requests |-> FALSE]
  /\ scanOutput = [r \in Requests |-> ""]
  /\ cloneErr = [r \in Requests |-> ""]
  /\ exec = [r \in Requests |-> NotRun]
  /\ warned = [r \in Requests |-> FALSE]
  /\ response = [r \in Requests |-> NoResponse]
  /\ awaited = [r \in Requests |-> 0]
  /\ client \in BOOLEAN
  /\ agentPromise = 0
  /\ promiseState = [p \in Requests |-> "unused"]
  /\ createCalls = 0

\* no function run is under way
FnIdle ==
  /\ stage = "idle"
  /\ givenPayload = NoPayload
  /\ givenReport = formatSnykPayload(NoPayload)
  /\ fallbackPlan = NullPlan
  /\ syncPlan = <<>>
  /\ givenIssues = <<>>
  /\ packageSummary = ""

Init == ServerInit /\ FnIdle

\* ------------------------------------------------------------ the handler
\* app.post('/api/scan'): validation, then fs.mkdtemp is awaited
Receive(r) ==
  /\ pc[r] = "idle"
  /\ \E valid \in Outcomes(r) :
       IF valid
       THEN /\ pc' = [pc EXCEPT ![r] = "mkdtemp"]
            /\ trace' = [trace EXCEPT ![r] = Append(@, "mkdtemp")]
            /\ UNCHANGED response
       ELSE /\ pc' = [pc EXCEPT ![r] = "done"]
            /\ trace' = [trace EXCEPT ![r] = Append(@, "respond")]
            /\ response' = [response EXCEPT ![r] = invalidInputResponse]
  /\ UNCHANGED <<dirExists, scanOutput, cloneErr, exec, warned, awaited, agentVars>>
  /\ UNCHANGED fnVars

\* fs.mkdtemp settles; on success git.clone is called and awaited, on failure
\* the handler's promise rejects (nothing catches it)
MkdtempReturns(r) ==
  /\ pc[r] = "mkdtemp"
  /\ \E created \in Outcomes(r) :
       IF created
       THEN /\ dirExists' = [dirExists EXCEPT ![r] = TRUE]
            /\ pc' = [pc EXCEPT ![r] = "clone"]
            /\ trace' = [trace EXCEPT ![r] = Append(@, "clone")]
       ELSE /\ pc' = [pc EXCEPT ![r] = "rejected"]
            /\ UNCHANGED <<dirExists, trace>>
  /\ UNCHANGED <<scanOutput, cloneErr, exec, warned, response, awaited, agentVars>>
  /\ UNCHANGED fnVars

\* git.clone settles; on success the scanner is started, on failure
\* cleanUpDir is called and awaited before the 400 is sent
CloneReturns(r) ==
  /\ pc[r] = "clone"
  /\ \/ /\ pc' = [pc EXCEPT ![r] = "scan"]
        /\ trace' = [trace EXCEPT ![r] = Append(@, "scan")]
        /\ UNCHANGED cloneErr
     \/ \E message \in CloneErrors :
          /\ FALSE \in Outcomes(r)
          /\ pc' = [pc EXCEPT ![r] = "cleanup"]
          /\ trace' = [trace EXCEPT ![r] = earlyCleanUp(@)]
          /\ cloneErr' = [cloneErr EXCEPT ![r] = message]
  /\ UNCHANGED <<dirExists, scanOutput, exec, warned, response, awaited, agentVars>>
  /\ UNCHANGED fnVars

\* cleanUpDir was the handler's last call
cleanUpDirCalled(events) == events # <<>> /\ events[Len(events)] = "cleanup"

\* the awaited cleanUpDir: fs.rm succeeds, or fails and is only logged
cleanUpDir(r) ==
  IF cleanUpDirCalled(trace[r])
  THEN \E removed \in Outcomes(r) :
         /\ dirExists' = [dirExists EXCEPT ![r] = afterRm(removed, @)]
         /\ warned' = [warned EXCEPT ![r] = ~removed]
  ELSE UNCHANGED <<dirExists, warned>>

\* an early return whose cleanUpDir lets the fs.rm error through to the
\* parse-failure answer
earlyResponseEscalating(r) ==
  IF warned'[r]
  THEN parseFailureResponse("EBUSY: resource busy or locked", "")
  ELSE IF Truthy(cloneErr[r])
  THEN cloneFailureResponse(cloneErr[r])
  ELSE scanFailureResponse(IF Truthy(exec[r].stderr) THEN exec[r].stderr ELSE ExecMessage)

\* the response of the early return that is waiting for cleanUpDir
earlyResponse(r) ==
  IF Truthy(cloneErr[r])
  THEN cloneFailureResponse(cloneErr[r])
  ELSE scanFailureResponse(IF Truthy(exec[r].stderr) THEN exec[r].stderr ELSE ExecMessage)

\* the handler returns: its local variables are gone
HandlerReturns(r) ==
  /\ pc' = [pc EXCEPT ![r] = "done"]
  /\ scanOutput' = [scanOutput EXCEPT ![r] = ""]
  /\ cloneErr' = [cloneErr EXCEPT ![r] = ""]
  /\ exec' = [exec EXCEPT ![r] = NotRun]
  /\ awaited' = [awaited EXCEPT ![r] = 0]

\* cleanUpDir returns on an early-return path; the response is sent
CleanUpReturns(r) ==
  /\ pc[r] = "cleanup"
  /\ cleanUpDir(r)
  /\ response' = [response EXCEPT ![r] = earlyResponse(r)]
  /\ trace' = [trace EXCEPT ![r] = Append(@, "respond")]
  /\ HandlerReturns(r)
  /\ UNCHANGED agentVars
  /\ UNCHANGED fnVars

\* cleanUpDir returns in the finally block; the handler ends
FinallyReturns(r) ==
  /\ pc[r] = "finally"
  /\ cleanUpDir(r)
  /\ HandlerReturns(r)
  /\ UNCHANGED <<trace, response, agentVars>>
  /\ UNCHANGED fnVars

\* a response sent inside the parse/plan try statement, followed by finally
SendThenFinally(r, events, resp) ==
  /\ response' = [response EXCEPT ![r] = resp]
  /\ trace' = [trace EXCEPT ![r] = finallyBlock(@ \o events \o <<"respond">>)]
  /\ pc' = [pc EXCEPT ![r] = "finally"]

\* ensureAgent up to its return, called from generateWithOpenAI inside generate;
\* a create call that throws rejects generate, which the handler's catch turns
\* into the parse-failure response
EnsureAgent(r, events, scanOut) ==
  IF ~client
  THEN /\ awaited' = [awaited EXCEPT ![r] = 0]
       /\ pc' = [pc EXCEPT ![r] = "agent"]
       /\ trace' = [trace EXCEPT ![r] = @ \o events]
       /\ UNCHANGED <<response, agentVars>>
  ELSE IF mustCreate(agentPromise)
  THEN /\ createCalls' = createCalls + 1
       /\ \/ /\ SendThenFinally(r, events,
                  parseFailureResponse("Cannot read properties of undefined", scanOut))
             /\ UNCHANGED <<awaited, client, agentPromise, promiseState>>
          \/ /\ promiseState' = [promiseState EXCEPT ![createCalls + 1] = "pending"]
             /\ agentPromise' = createCalls + 1
             /\ awaited' = [awaited EXCEPT ![r] = createCalls + 1]
             /\ pc' = [pc EXCEPT ![r] = "agent"]
             /\ trace' = [trace EXCEPT ![r] = @ \o events]
             /\ UNCHANGED <<response, client>>
  ELSE /\ awaited' = [awaited EXCEPT ![r] = agentPromise]
       /\ pc' = [pc EXCEPT ![r] = "agent"]
       /\ trace' = [trace EXCEPT ![r] = @ \o events]
       /\ UNCHANGED <<response, agentVars>>

\* the parse/plan try statement up to its first await
ParseBlock(r, scanOut) ==
  LET result == JSONparse(scanOut)
      parsed == result.value
  IN IF ~result.ok
     THEN /\ SendThenFinally(r, <<"parse">>,
               parseFailureResponse("Unexpected token in JSON", scanOut))
          /\ UNCHANGED <<awaited, agentVars>>
     ELSE IF reportsError(parsed)
     THEN /\ SendThenFinally(r, <<"parse">>, toolErrorResponse(parsed))
          /\ UNCHANGED <<awaited, agentVars>>
     ELSE IF formatThrows(parsed)
     THEN /\ SendThenFinally(r, <<"parse", "normalize">>,
               parseFailureResponse("Cannot read properties of null", scanOut))
          /\ UNCHANGED <<awaited, agentVars>>
     ELSE EnsureAgent(r, <<"parse", "normalize", "plan">>, scanOut)

\* execAsync settles: its stdout (or the stdout of a failed run, when not
\* empty) becomes scanOutput and the parse block runs; otherwise cleanUpDir is
\* called and awaited before the 500 is sent
ScanReturns(r) ==
  /\ pc[r] = "scan"
  /\ \E exitOk \in Outcomes(r), stdout \in outputsFor(r), stderr \in ScannerStderr :
       /\ stdoutUsable(exitOk, stdout) => stderr = ""
       /\ exec' = [exec EXCEPT ![r] = Exec(TRUE, exitOk, stdout, stderr)]
       /\ IF stdoutUsable(exitOk, stdout)
          THEN /\ scanOutput' = [scanOutput EXCEPT ![r] = stdout]
               /\ ParseBlock(r, stdout)
          ELSE /\ pc' = [pc EXCEPT ![r] = "cleanup"]
               /\ trace' = [trace EXCEPT ![r] = earlyCleanUp(@)]
               /\ UNCHANGED <<scanOutput, response, awaited, agentVars>>
  /\ UNCHANGED <<dirExists, cloneErr, warned>>
  /\ UNCHANGED fnVars

\* the report the handler passed to generate
formatted(r) == formatSnykPayload(JSONparse(scanOutput[r]).value)

\* client.agents.create settles
CreateSettles(p) ==
  /\ promiseState[p] = "pending"
  /\ \/ /\ promiseState' = [promiseState EXCEPT ![p] = "agent"]
        /\ agentPromise' = afterFulfil(agentPromise)
     \/ /\ promiseState' = [promiseState EXCEPT ![p] = "rejected"]
        /\ UNCHANGED agentPromise
  /\ UNCHANGED <<reqVars, client, createCalls>>
  /\ UNCHANGED fnVars

\* the .catch handler of a rejected creation: log, clear the handle, yield null
CatchHandler(p) ==
  /\ promiseState[p] = "rejected"
  /\ promiseState' = [promiseState EXCEPT ![p] = "null"]
  /\ agentPromise' = afterCatch(agentPromise)
  /\ UNCHANGED <<reqVars, client, createCalls>>
  /\ UNCHANGED fnVars

agentOf(r) ==
  IF awaited[r] = 0 THEN "null" ELSE promiseState[awaited[r]]

\* await this.ensureAgent() resumes in generateWithOpenAI: without an agent
\* generate falls back and the result is sent; with one, responses.create is
\* called and awaited
AgentResolved(r) ==
  /\ pc[r] = "agent"
  /\ agentOf(r) \in {"agent", "null"}
  /\ IF agentOf(r) = "null"
     THEN SendThenFinally(r, <<>>, successResponse(generate(NullPlan, formatted(r))))
     ELSE /\ pc' = [pc EXCEPT ![r] = "remote"]
          /\ trace' = [trace EXCEPT ![r] = Append(@, "remote")]
          /\ UNCHANGED response
  /\ UNCHANGED <<dirExists, scanOutput, cloneErr, exec, warned, awaited, agentVars>>
  /\ UNCHANGED fnVars

\* client.responses.create settles; the plan (delegated or fallback) is sent
RemoteReturns(r) ==
  /\ pc[r] = "remote"
  /\ \E reply \in Replies :
       SendThenFinally(r, <<>>,
         successResponse(generate(planFromReply(reply), formatted(r))))
  /\ UNCHANGED <<dirExists, scanOutput, cloneErr, exec, warned, awaited, agentVars>>
  /\ UNCHANGED fnVars

Next ==
  \/ \E r \in Requests : Receive(r)
  \/ \E r \in Requests : MkdtempReturns(r)
  \/ \E r \in Requests : CloneReturns(r)
  \/ \E r \in Requests : ScanReturns(r)
  \/ \E r \in Requests : CleanUpReturns(r)
  \/ \E p \in Requests : CreateSettles(p)
  \/ \E p \in Requests : CatchHandler(p)
  \/ \E r \in Requests : AgentResolved(r)
  \/ \E r \in Requests : RemoteReturns(r)
  \/ \E r \in Requests : FinallyReturns(r)

Spec == Init /\ [][Next]_vars

TypeOK ==
  /\ pc \in [Requests -> {"idle", "mkdtemp", "clone", "scan", "cleanup", "agent",
                          "remote", "finally", "done", "rejected"}]
  /\ agentPromise \in 0..NumReq
  /\ createCalls \in 0..NumReq

\* ----------------------------------------------- the actionPlan field
\* JSON values of the actionPlan field: an array of steps, or an object
arrayValue(steps) == [isArray |-> TRUE, elements |-> steps, fields |-> NullPlan]

objectValue(plan) == [isArray |-> FALSE, elements |-> <<>>, fields |-> plan]

\* body.actionPlan of a success response: res.json serializes what generate
\* returned, the plan object {steps, noAction, source}
actionPlanOf(resp) == objectValue(resp.plan)

NoActions == "No actions recommended."

\* the Action Plan section of ScanResults: the list items it shows
renderActionPlan(actionPlan) ==
  IF actionPlan.isArray /\ Len(actionPlan.elements) > 0
  THEN actionPlan.elements ELSE <<NoActions>>

\* ========================================================= function runs
\* formatSnykPayload, generateFallback, the synchronous generate and
\* summarizePackages applied to every input of a bounded set.

\* longest issue list of a report given to the planners
MaxIssues == 3
\* longest finding list of a payload given to formatSnykPayload
MaxItems == 2
\* longest list given to summarizePackages
MaxNames == 6

SeqsUpTo(S, n) == UNION {[1..k -> S] : k \in 0..n}

\* scanner findings: one per recognised severity, one with a severity the
\* scanner does not define, one without a severity
RawItems ==
  {RawItem("critical", "openssl", <<>>, TRUE),
   RawItem("high", "lodash", <<"", "lodash@4.17.21">>, FALSE),
   RawItem("medium", "", <<>>, FALSE),
   RawItem("low", "lodash", <<"lodash@4.17.21">>, TRUE),
   RawItem("unknown", "left-pad", <<>>, FALSE),
   RawItem("", "left-pad", <<>>, FALSE)}

RawLicense == RawItem("medium", "gpl-lib", <<>>, FALSE)

\* parsed payloads: null, or an object with its findings under
\* issues.vulnerabilities (with or without a vulnerabilities list next to
\* it), under vulnerabilities only, or under neither
Payloads ==
  {NoPayload}
  \cup {Payload(FALSE, "", "", ok, legacyIsArray,
                IF legacyIsArray THEN <<RawItem("high", "minimist", <<>>, FALSE)>> ELSE <<>>,
                TRUE, nested, licenses) :
          ok \in BOOLEAN, legacyIsArray \in BOOLEAN,
          licenses \in {<<>>, <<RawLicense>>},
          nested \in SeqsUpTo(RawItems \cup {NullItem}, MaxItems)}
  \cup {Payload(FALSE, "", "", ok, TRUE, legacy, FALSE, <<>>, licenses) :
          ok \in BOOLEAN, licenses \in {<<>>, <<RawLicense>>},
          legacy \in SeqsUpTo(RawItems \cup {NullItem}, MaxItems)}
  \cup {Payload(FALSE, "", "", ok, FALSE, <<>>, FALSE, <<>>, licenses) :
          ok \in BOOLEAN, licenses \in {<<>>, <<RawLicense>>}}

ReportIssues == {mapIssue(item) : item \in RawItems}

\* reports for the planners: not an object at all, or an object whose issues
\* and licenses fields are arrays or something else (absent, malformed)
Reports ==
  {[formatSnykPayload(NoPayload) EXCEPT !.isObject = FALSE]}
  \cup {[isObject |-> TRUE, ok |-> counters(issues.list) = counters(<<>>),
          summary |-> counters(issues.list),
          issuesIsArray |-> issues.isArray, issues |-> issues.list,
          licensesIsArray |-> licenses.isArray, licenses |-> licenses.list,
          repositoryAccessible |-> repositoryAccessible] :
          repositoryAccessible \in BOOLEAN,
          issues \in {[isArray |-> FALSE, list |-> <<>>]}
                       \cup {[isArray |-> TRUE, list |-> list] :
                                list \in SeqsUpTo(ReportIssues, MaxIssues)},
          licenses \in {[isArray |-> FALSE, list |-> <<>>],
                        [isArray |-> TRUE, list |-> <<>>],
                        [isArray |-> TRUE, list |-> <<mapLicense(RawLicense)>>]}}

PackageNames == {"a", "b", "c", "d", "e", "f"}

IssueLists == SeqsUpTo({[packageName |-> name] : name \in PackageNames}, MaxNames)

\* one function run is set up: a payload, a report or a list of issues
FnInit ==
  /\ fallbackPlan = NullPlan
  /\ syncPlan = <<>>
  /\ packageSummary = ""
  /\ \/ /\ stage = "payload"
        /\ givenPayload \in Payloads
        /\ givenReport = formatSnykPayload(NoPayload)
        /\ givenIssues = <<>>
     \/ /\ stage = "report"
        /\ givenPayload = NoPayload
        /\ givenReport \in Reports
        /\ givenIssues = <<>>
     \/ /\ stage = "issues"
        /\ givenPayload = NoPayload
        /\ givenReport = formatSnykPayload(NoPayload)
        /\ givenIssues \in IssueLists

InitFunctions == ServerInit /\ ~client /\ FnInit

\* formatSnykPayload(parsed): the report, or a TypeError
Normalize ==
  /\ stage = "payload"
  /\ IF formatThrows(givenPayload)
     THEN /\ stage' = "threw"
          /\ UNCHANGED givenReport
     ELSE /\ stage' = "report"
          /\ givenReport' = formatSnykPayload(givenPayload)
  /\ UNCHANGED <<givenPayload, fallbackPlan, syncPlan, givenIssues, packageSummary>>
  /\ UNCHANGED <<reqVars, agentVars>>

\* generateFallback(scanResult)
RunFallback ==
  /\ stage = "report"
  /\ fallbackPlan' = generateFallback(givenReport)
  /\ stage' = "fallback"
  /\ UNCHANGED <<givenPayload, givenReport, syncPlan, givenIssues, packageSummary>>
  /\ UNCHANGED <<reqVars, agentVars>>

\* generate(scanResult) of src/actionPlanAgent.js
RunSync ==
  /\ stage = "fallback"
  /\ syncPlan' = generateSync(givenReport)
  /\ stage' = "planned"
  /\ UNCHANGED <<givenPayload, givenReport, fallbackPlan, givenIssues, packageSummary>>
  /\ UNCHANGED <<reqVars, agentVars>>

\* summarizePackages(issues)
Summarize ==
  /\ stage = "issues"
  /\ packageSummary' = summarizePackages(givenIssues)
  /\ stage' = "summarized"
  /\ UNCHANGED <<givenPayload, givenReport, fallbackPlan, syncPlan, givenIssues>>
  /\ UNCHANGED <<reqVars, agentVars>>

NextFunctions == Normalize \/ RunFallback \/ RunSync \/ Summarize

SpecFunctions == InitFunctions /\ [][NextFunctions]_vars

\* ================================================================= claims
Count(events, e) == Len(SelectSeq(events, LAMBDA x : x = e))

Has(events, e) == Count(events, e) > 0

\* position of the first e in events (0 when absent)
RECURSIVE IndexFrom(_, _, _)
IndexFrom(events, e, i) ==
  IF i > Len(events) THEN 0
  ELSE IF events[i] = e THEN i ELSE IndexFrom(events, e, i + 1)

IndexOf(events, e) == IndexFrom(events, e, 1)

\* the request's workspace was created (git.clone is called right after)
WorkspaceCreated(r) == Has(trace[r], "clone")

\* the handler has returned (or its promise has rejected)
Finished(r) == pc[r] \in {"done", "rejected"}

Responded(r) == response[r].status # 0

IsCloneFailure(resp) == resp.error = "Failed to clone repository."
IsScanFailure(resp) == resp.error = "Snyk scan failed."
IsToolError(resp) == resp.error = "Snyk scan reported an error."
IsParseFailure(resp) == resp.error = "Unable to parse Snyk output."

\* C1: for every request whose workspace was created, cleanUpDir is invoked
\* exactly once by the time the handler has finished, on every exit path
\* (success, clone failure, scanner failure, tool-reported error, parse
\* failure), and never more than once at any time.
C1_ReleaseExactlyOnce ==
  \A r \in Requests :
    /\ Count(trace[r], "cleanup") <= 1
    /\ (WorkspaceCreated(r) /\ Finished(r)) => Count(trace[r], "cleanup") = 1
    /\ (WorkspaceCreated(r) /\ Responded(r)
          /\ (response[r].status = 200 \/ IsCloneFailure(response[r])
              \/ IsScanFailure(response[r]) \/ IsToolError(response[r])
              \/ IsParseFailure(response[r])))
       => Count(trace[r], "cleanup") = 1

\* a request finished on the parse-failure path with its workspace released
\* once, next to a request that finished on the success path
C1_Witness ==
  \E r1, r2 \in Requests :
    /\ pc[r1] = "done" /\ IsParseFailure(response[r1])
    /\ pc[r2] = "done" /\ response[r2].status = 200
    /\ Count(trace[r1], "cleanup") = 1 /\ Count(trace[r2], "cleanup") = 1

\* C2 (as stated): for every request that created a workspace, cleanUpDir
\* has been invoked before the response is sent.
C2_CleanupBeforeResponse ==
  \A r \in Requests :
    (WorkspaceCreated(r) /\ Responded(r))
      => /\ Has(trace[r], "cleanup")
         /\ IndexOf(trace[r], "cleanup") < IndexOf(trace[r], "respond")

\* C2 (amended): cleanUpDir has completed before the response is sent exactly
\* on the clone-failure and scanner-failure paths; on the success,
\* tool-reported-error and parse-failure paths the response is sent first and
\* cleanUpDir is invoked right after it, in the finally block, before the
\* handler finishes.
C2_CleanupOrder ==
  \A r \in Requests :
    (WorkspaceCreated(r) /\ Responded(r))
      => /\ Has(trace[r], "cleanup")
         /\ IF IsCloneFailure(response[r]) \/ IsScanFailure(response[r])
            THEN /\ IndexOf(trace[r], "cleanup") < IndexOf(trace[r], "respond")
                 /\ pc[r] = "done"
            ELSE /\ IndexOf(trace[r], "cleanup") = IndexOf(trace[r], "respond") + 1
                 /\ pc[r] \in {"finally", "done"}

\* a scanner-failure response sent after cleanup, and a success response
\* sent before it
C2_Witness ==
  \E r1, r2 \in Requests :
    /\ IsScanFailure(response[r1]) /\ pc[r1] = "done"
    /\ response[r2].status = 200 /\ pc[r2] = "finally"

\* C3 (as stated): once the handler has finished, the workspace directory of
\* the request no longer exists.
C3_NoWorkspaceOutlives ==
  \A r \in Requests : Finished(r) => ~dirExists[r]

\* C3 (amended): once the handler has finished, the workspace directory no
\* longer exists unless its removal failed, in which case the failure was
\* logged as a warning; removal is attempted on every path.
C3_AbsentUnlessRemovalFailed ==
  \A r \in Requests :
    Finished(r) => /\ dirExists[r] <=> warned[r]
                   /\ WorkspaceCreated(r) => Has(trace[r], "cleanup")

\* a finished successful request whose directory is gone, next to a finished
\* request whose removal failed
C3_Witness ==
  \E r1, r2 \in Requests :
    /\ pc[r1] = "done" /\ WorkspaceCreated(r1) /\ warned[r1] /\ dirExists[r1]
    /\ pc[r2] = "done" /\ response[r2].status = 200 /\ ~dirExists[r2]

\* a creation whose outcome the handle's promise has not yet delivered
InFlight == {"pending", "rejected"}

\* C4: a failure at any stage of the delegated path (creation rejecting or
\* throwing, the responses call, missing text, unparsable or malformed JSON)
\* never changes the response into an error: every request whose planner was
\* invoked is answered 200 with a plan, which is the deterministic plan when
\* no agent was available.
C4_DelegatedFailureAbsorbed ==
  \A r \in Requests :
    (Has(trace[r], "plan") /\ Responded(r))
      => /\ response[r].status = 200
         /\ ~IsNullPlan(response[r].plan)
         /\ (pc[r] = "finally" /\ ~Has(trace[r], "remote"))
              => response[r].plan = generateFallback(formatted(r))

\* C5: while a creation is in flight it is the only one, it is the one the
\* handle refers to, and every request that called ensureAgent meanwhile
\* awaits that same creation.
C5_SharedInFlightCreation ==
  /\ Cardinality({p \in Requests : promiseState[p] \in InFlight}) <= 1
  /\ \A p \in Requests : promiseState[p] \in InFlight => agentPromise = p
  /\ \A r \in Requests :
       (client /\ pc[r] = "agent") => (awaited[r] # 0 /\ promiseState[awaited[r]] # "unused")
  /\ \A r1, r2 \in Requests :
       (pc[r1] = "agent" /\ pc[r2] = "agent" /\ awaited[r1] # 0 /\ awaited[r2] # 0
          /\ promiseState[awaited[r1]] \in InFlight
          /\ promiseState[awaited[r2]] \in InFlight)
       => awaited[r1] = awaited[r2]

\* two requests wait in ensureAgent for one pending creation, one call issued
C5_Witness ==
  \E r1, r2 \in Requests :
    /\ r1 # r2 /\ pc[r1] = "agent" /\ pc[r2] = "agent"
    /\ awaited[r1] # 0 /\ awaited[r1] = awaited[r2]
    /\ promiseState[awaited[r1]] = "pending"
    /\ createCalls = 1

\* C6 (as stated): at most one remote create call is ever issued.
C6_AtMostOneCreateCall == createCalls <= 1

Created == {p \in Requests : promiseState[p] = "agent"}

\* C6 (amended): at most one creation ever succeeds, and once one has, no
\* further create call is issued and the handle keeps referring to it, so
\* every later request reuses it; a creation that fails (rejects or throws)
\* leaves no handle, and a later request issues a new create call.
C6_CreatedOnceThenReused ==
  [][ /\ Cardinality(Created') <= 1
      /\ Created # {} => /\ createCalls' = createCalls
                         /\ Created' = Created
                         /\ agentPromise' = agentPromise
                         /\ agentPromise \in Created
                         /\ \A r \in Requests :
                              (pc[r] # "agent" /\ pc'[r] = "agent")
                                => awaited'[r] \in Created ]_vars

\* after a first creation failed, a second one succeeded and a request is
\* using it for the remote call
C6_Witness ==
  /\ createCalls = 2
  /\ \E r \in Requests : pc[r] = "remote" /\ awaited[r] \in Created

\* C7: every plan sent in a successful response has noAction true exactly
\* when its step sequence is empty.
C7_NoActionIffEmpty ==
  \A r \in Requests :
    response[r].status = 200
      => (response[r].plan.noAction <=> response[r].plan.steps = <<>>)

\* C8: a scanner run that exits non-zero with non-empty standard output goes
\* on to the parse block with that output; the early cleanup that leads to
\* the 500 scan-failure response happens exactly when the scanner failed with
\* empty standard output, and that response is sent on no other path.
C8_ScannerOutcomePolicy ==
  \A r \in Requests :
    /\ exec[r].settled
         => /\ (exec[r].exitOk \/ exec[r].stdout # "")
                 => /\ scanOutput[r] = exec[r].stdout
                    /\ Has(trace[r], "parse")
                    /\ pc[r] \in {"agent", "remote", "finally"}
                    /\ ~IsScanFailure(response[r])
            /\ (~exec[r].exitOk /\ exec[r].stdout = "") <=> pc[r] = "cleanup"
            /\ pc[r] = "cleanup"
                 => /\ ~Has(trace[r], "parse")
                    /\ earlyResponse(r).status = 500
                    /\ IsScanFailure(earlyResponse(r))
    /\ IsScanFailure(response[r])
         => trace[r] = <<"mkdtemp", "clone", "scan", "cleanup", "respond">>
    /\ (Has(trace[r], "scan") /\ Responded(r) /\ ~IsScanFailure(response[r]))
         => Has(trace[r], "parse")

\* a run that exited non-zero but printed a report was answered 200
C8_Witness ==
  \E r \in Requests :
    /\ exec[r].settled /\ ~exec[r].exitOk /\ exec[r].stdout = TextVuln
    /\ response[r].status = 200 /\ pc[r] = "finally"

\* C9: when git.clone fails, the request is answered 400 with the clone
\* error's message as details, and the scanner, the parser, the normalizer
\* and the planner are never invoked for it.
C9_CloneFailure ==
  \A r \in Requests :
    /\ cloneErr[r] # ""
         => /\ pc[r] = "cleanup"
            /\ ~exec[r].settled
            /\ trace[r] = <<"mkdtemp", "clone", "cleanup">>
            /\ earlyResponse(r).status = 400
            /\ IsCloneFailure(earlyResponse(r))
            /\ earlyResponse(r).details = cloneErr[r]
    /\ (pc[r] = "cleanup" /\ cloneErr[r] = "") => exec[r].settled
    /\ IsCloneFailure(response[r])
         => /\ response[r].status = 400
            /\ response[r].details \in CloneErrors
            /\ trace[r] = <<"mkdtemp", "clone", "cleanup", "respond">>
            /\ pc[r] = "done"

\* a request whose clone failed has been answered
C9_Witness ==
  \E r \in Requests : IsCloneFailure(response[r]) /\ pc[r] = "done"

\* the parsed scanner output of a request whose output parsed as JSON
parsedOf(r) == JSONparse(scanOutput[r]).value

\* C10: when the scanner output parses as JSON and carries an error or
\* userMessage, the request is answered 502 (tool-reported error), neither
\* normalization nor planning runs, and cleanUpDir is still invoked once.
C10_ToolReportedError ==
  \A r \in Requests :
    /\ (Has(trace[r], "parse") /\ JSONparse(scanOutput[r]).ok /\ ~parsedOf(r).isNull
          /\ (parsedOf(r).error # "" \/ parsedOf(r).userMessage # ""))
         => /\ response[r].status = 502
            /\ IsToolError(response[r])
            /\ pc[r] = "finally"
    /\ IsToolError(response[r])
         => /\ response[r].status = 502
            /\ trace[r] = <<"mkdtemp", "clone", "scan", "parse", "respond", "cleanup">>
            /\ Finished(r) => (dirExists[r] <=> warned[r])

\* a payload carrying only userMessage has been answered 502 and cleanUpDir
\* is running
C10_Witness ==
  \E r \in Requests :
    /\ scanOutput[r] = TextUserMessage /\ pc[r] = "finally"
    /\ response[r].status = 502 /\ cleanUpDirCalled(trace[r])

\* C11: when the scanner output is not valid JSON, the request is answered
\* with the 500 "Unable to parse Snyk output." response whose rawOutput field
\* is the scanner's text unchanged, cleanUpDir is invoked right after the
\* response, and once the handler has finished the workspace is gone unless
\* its removal failed; every parse-failure response carries a rawOutput field.
C11_NonJsonParseFailure ==
  \A r \in Requests :
    /\ (pc[r] = "finally" /\ ~JSONparse(scanOutput[r]).ok)
         => /\ response[r].status = 500
            /\ IsParseFailure(response[r])
            /\ response[r].hasRaw
            /\ response[r].rawOutput = scanOutput[r]
            /\ trace[r] = <<"mkdtemp", "clone", "scan", "parse", "respond", "cleanup">>
    /\ IsParseFailure(response[r])
         => /\ response[r].hasRaw
            /\ Count(trace[r], "cleanup") = 1
            /\ Finished(r) => (dirExists[r] <=> warned[r])

\* the scanner printed its usage text: the 500 response carrying that text has
\* been sent and cleanUpDir is running
C11_Witness ==
  \E r \in Requests :
    /\ scanOutput[r] = TextGarbage /\ pc[r] = "finally"
    /\ response[r].status = 500 /\ response[r].rawOutput = TextGarbage
    /\ cleanUpDirCalled(trace[r])

\* C12: every request whose report was handed to generate is answered with
\* the plan generate returned: the delegated plan, tagged 'openai', when
\* generateWithOpenAI returned one, and otherwise exactly
\* generateFallback of the same report, tagged 'fallback'; without a client
\* no creation and no remote call is ever issued and the plan is the
\* fallback one.
C12_DelegatedElseDeterministic ==
  \A r \in Requests :
    (Has(trace[r], "plan") /\ Responded(r))
      => /\ response[r].status = 200
         /\ response[r].plan.source \in {"openai", "fallback"}
         /\ response[r].plan.source = "openai"
              => /\ Has(trace[r], "remote")
                 /\ \E reply \in Replies : response[r].plan = planFromReply(reply)
         /\ (response[r].plan.source = "fallback" /\ pc[r] = "finally")
              => response[r].plan = generateFallback(formatted(r))
         /\ ~client => /\ response[r].plan.source = "fallback"
                        /\ createCalls = 0
                        /\ ~Has(trace[r], "remote")

\* the report passed the early returns of the planners
WellFormed(report) ==
  report.isObject /\ report.repositoryAccessible /\ report.issuesIsArray

HasLicenses(report) == report.licensesIsArray /\ Len(report.licenses) > 0

\* the steps a plan holds before position i
Before(steps, i) == SubSeq(steps, 1, i - 1)

\* C13: for every accessible report with a well-formed issue list and at
\* least one license finding, the plan of generateFallback contains the
\* license-review step exactly once, right after the severity steps, whether
\* the issue list is empty or not.
C13_LicenseStepOnce ==
  (stage \in {"fallback", "planned"} /\ WellFormed(givenReport) /\ HasLicenses(givenReport))
    => LET step == licenseStep(givenReport.licenses)
           steps == fallbackPlan.steps
       IN /\ Count(steps, step) = 1
          /\ Before(steps, IndexOf(steps, step))
               = severitySteps(givenReport.issues, severityOrder)

\* givenReport is what formatSnykPayload made of givenPayload
Normalized ==
  /\ stage \in {"report", "fallback", "planned"}
  /\ ~formatThrows(givenPayload)
  /\ givenReport = formatSnykPayload(givenPayload)

\* the list formatSnykPayload reads the findings from is empty or missing
EmptyIssueList(payload) ==
  \/ payload.isNull
  \/ payload.nestedIsArray /\ payload.nested = <<>>
  \/ ~payload.nestedIsArray /\ payload.legacyIsArray /\ payload.legacy = <<>>
  \/ ~payload.nestedIsArray /\ ~payload.legacyIsArray

NoCounts == [critical |-> 0, high |-> 0, medium |-> 0, low |-> 0]

\* C14 (as stated): for scanner output whose issue list is empty,
\* normalization yields an empty issue list and all-zero severity counts, and
\* the deterministic plan is the single 'no vulnerabilities' step with
\* noAction true.
C14_SingleInformationalStep ==
  (Normalized /\ EmptyIssueList(givenPayload))
    => /\ givenReport.issues = <<>>
       /\ givenReport.summary = NoCounts
       /\ stage \in {"fallback", "planned"}
            => /\ fallbackPlan.steps = <<StepNoVulnerabilities>>
               /\ fallbackPlan.noAction

\* C14 (amended): for scanner output whose issue list is empty,
\* normalization yields an empty issue list and all-zero severity counts, and
\* (when there are no license findings either) the plan of generateFallback
\* has no steps at all, with noAction true and source 'fallback'; the
\* 'no vulnerabilities' step is produced only by the synchronous generate of
\* src/actionPlanAgent.js, as the last step of its array, after the license
\* step if there is one.
C14_EmptyPlanNoAction ==
  (Normalized /\ EmptyIssueList(givenPayload))
    => /\ givenReport.issues = <<>>
       /\ givenReport.summary = NoCounts
       /\ (stage \in {"fallback", "planned"} /\ ~HasLicenses(givenReport))
            => fallbackPlan = [steps |-> <<>>, noAction |-> TRUE, source |-> "fallback"]
       /\ stage = "planned"
            => /\ syncPlan[Len(syncPlan)] = StepNoVulnerabilities
               /\ Count(syncPlan, StepNoVulnerabilities) = 1
               /\ Len(syncPlan) = IF HasLicenses(givenReport) THEN 2 ELSE 1

\* the output {"ok": true, "vulnerabilities": []} has been normalized and
\* planned: no steps, noAction true
C14_Witness ==
  /\ stage = "planned"
  /\ givenPayload = JSONparse(TextClean).value
  /\ givenReport.ok /\ givenReport.issues = <<>>
  /\ fallbackPlan.steps = <<>> /\ fallbackPlan.noAction
  /\ syncPlan = <<StepNoVulnerabilities>>

HighWithUpgrade == mapIssue(RawItem("high", "lodash", <<"", "lodash@4.17.21">>, FALSE))
CriticalPatched == mapIssue(RawItem("critical", "openssl", <<>>, TRUE))

\* C15: whenever the issue list of a report that passed the early returns is
\* non-empty (also when no issue has a recognised severity), the plan of
\* generateFallback ends with the two closing steps, automation first and
\* re-run second, each once, after the severity steps and the license step,
\* and noAction is false; a report produced by formatSnykPayload always
\* passes the early returns; for one high issue with an upgrade path and one
\* critical patched issue, in either order, the plan is exactly the critical
\* step with 'apply available patches', the high step with 'upgrade
\* dependencies to secure versions', and the two closing steps.
C15_ClosingSteps ==
  /\ Normalized => WellFormed(givenReport)
  /\ (stage \in {"fallback", "planned"} /\ WellFormed(givenReport)
        /\ Len(givenReport.issues) > 0)
       => LET steps == fallbackPlan.steps
              n == Len(steps)
          IN /\ n >= 2
             /\ steps[n - 1] = StepAutomate /\ steps[n] = StepRerun
             /\ Count(steps, StepAutomate) = 1 /\ Count(steps, StepRerun) = 1
             /\ SubSeq(steps, 1, n - 2)
                  = severitySteps(givenReport.issues, severityOrder)
                      \o licenseSteps(givenReport)
             /\ ~fallbackPlan.noAction
             /\ (\A i \in 1..Len(givenReport.issues) :
                    givenReport.issues[i].severity \in {"unknown", ""})
                  => n = IF HasLicenses(givenReport) THEN 3 ELSE 2
  /\ (stage \in {"fallback", "planned"} /\ WellFormed(givenReport)
        /\ ~HasLicenses(givenReport)
        /\ givenReport.issues \in {<<HighWithUpgrade, CriticalPatched>>,
                                    <<CriticalPatched, HighWithUpgrade>>})
       => fallbackPlan.steps
            = <<"Resolve Critical vulnerabilities first (openssl) (apply available patches).",
                "Resolve High vulnerabilities first (lodash) (upgrade dependencies to secure versions).",
                StepAutomate, StepRerun>>

\* the high issue listed before the critical one has been planned: critical
\* step, high step, closing steps
C15_Witness ==
  /\ stage = "planned"
  /\ givenReport.repositoryAccessible
  /\ givenReport.issues = <<HighWithUpgrade, CriticalPatched>>
  /\ Len(fallbackPlan.steps) = 4
  /\ fallbackPlan.steps[4] = StepRerun
  /\ ~fallbackPlan.noAction

\* the step of one severity for a report: none when no issue carries it
StepFor(report, severity) ==
  IF \E i \in 1..Len(report.issues) : report.issues[i].severity = severity
  THEN <<severityStep(SelectSeq(report.issues, LAMBDA issue : issue.severity = severity),
                      severity)>>
  ELSE <<>>

\* the steps of a plan that are not the access, license or closing steps
SeverityPart(report, steps) ==
  SelectSeq(steps, LAMBDA step :
    /\ step \notin {StepRestoreAccess, StepAutomate, StepRerun, StepNoVulnerabilities}
    /\ step # licenseStep(report.licenses))

\* C16: in every plan of generateFallback and of the synchronous generate,
\* the severity steps are the critical step, the high step, the medium step
\* and the low step in that order, whatever the order of the issues, each at
\* most once, and a severity no issue carries has no step; a report that did
\* not pass the early returns has no severity step.
C16_SeverityOrder ==
  LET expected == StepFor(givenReport, "critical") \o StepFor(givenReport, "high")
                    \o StepFor(givenReport, "medium") \o StepFor(givenReport, "low")
  IN /\ stage \in {"fallback", "planned"}
          => SeverityPart(givenReport, fallbackPlan.steps)
               = IF WellFormed(givenReport) THEN expected ELSE <<>>
     /\ stage = "planned"
          => SeverityPart(givenReport, syncPlan)
               = IF WellFormed(givenReport) THEN expected ELSE <<>>

\* a report listing a low issue before a critical one has been planned by
\* both planners: the critical step comes first
C16_Witness ==
  /\ stage = "planned" /\ WellFormed(givenReport)
  /\ Len(givenReport.issues) = 3
  /\ givenReport.issues[1].severity = "low"
  /\ givenReport.issues[2].severity = "critical"
  /\ givenReport.issues[3].severity = "unknown"
  /\ <<fallbackPlan.steps[1]>> = StepFor(givenReport, "critical")
  /\ <<syncPlan[2]>> = StepFor(givenReport, "low")

\* C17: if the report's repositoryAccessible flag is false, the plan of
\* generateFallback and the plan of the synchronous generate are exactly one
\* step, 'Restore repository access so automated scans can run.', whatever
\* the issues and licenses fields hold (empty, non-empty, not an array).
C17_AccessRestorationOnly ==
  (givenReport.isObject /\ ~givenReport.repositoryAccessible)
    => /\ stage \in {"fallback", "planned"}
            => fallbackPlan.steps = <<"Restore repository access so automated scans can run.">>
       /\ stage = "planned"
            => syncPlan = <<"Restore repository access so automated scans can run.">>

\* an inaccessible report with issues and a license finding has been planned
C17_Witness ==
  /\ stage = "planned"
  /\ givenReport.isObject /\ ~givenReport.repositoryAccessible
  /\ givenReport.issuesIsArray /\ Len(givenReport.issues) = MaxIssues
  /\ HasLicenses(givenReport)
  /\ Len(fallbackPlan.steps) = 1 /\ Len(syncPlan) = 1

NamesOf(list) == [i \in 1..Len(list) |-> list[i].packageName]

\* C18: summarizePackages lists the first five distinct package names in
\* first-seen order, joined with ', ', and ends with the ellipsis marker
\* exactly when the list names more than five distinct packages; for
\* [a,b,c,d,e,f] it is 'a, b, c, d, e' with the marker and for [a,b] it is
\* exactly 'a, b'.
C18_EllipsisIffMoreThanFive ==
  stage = "summarized"
    => LET names == NamesOf(givenIssues)
           distinct == {names[i] : i \in 1..Len(names)}
           listed == Join(Slice(Dedupe(names, <<>>), 5), ", ")
       IN /\ packageSummary
               = IF Cardinality(distinct) > 5 THEN listed \o Ellipsis ELSE listed
          /\ names = <<"a", "b", "c", "d", "e", "f">>
               => packageSummary = "a, b, c, d, e, ..."
          /\ names = <<"a", "b">> => packageSummary = "a, b"

Recognised == {"critical", "high", "medium", "low"}

\* number of issues of a report whose severity is in the set
Carrying(report, severities) ==
  Cardinality({i \in 1..Len(report.issues) : report.issues[i].severity \in severities})

\* C19: for every report produced by formatSnykPayload, each of the four
\* counters of summary equals the number of issues of the report carrying
\* that severity, so their sum is the number of issues with a recognised
\* severity; issues with a missing or unrecognised severity are not counted
\* but stay in the issue list, which keeps every finding of the payload in
\* order.
C19_CountersMatchIssues ==
  Normalized
    => /\ givenReport.summary.critical = Carrying(givenReport, {"critical"})
       /\ givenReport.summary.high = Carrying(givenReport, {"high"})
       /\ givenReport.summary.medium = Carrying(givenReport, {"medium"})
       /\ givenReport.summary.low = Carrying(givenReport, {"low"})
       /\ givenReport.summary.critical + givenReport.summary.high
            + givenReport.summary.medium + givenReport.summary.low
            = Carrying(givenReport, Recognised)
       /\ Len(givenReport.issues) = Len(rawIssues(givenPayload))
       /\ \A i \in 1..Len(givenReport.issues) :
            givenReport.issues[i].severity = rawIssues(givenPayload)[i].severity

\* a payload with one finding of unknown severity and one high finding has
\* been normalized: both are listed, one is counted
C19_Witness ==
  /\ stage = "report" /\ Normalized
  /\ Len(givenPayload.nested) = 2
  /\ Len(givenReport.issues) = 2
  /\ givenReport.issues[1].severity = "unknown"
  /\ givenReport.issues[2].severity = "high"
  /\ givenReport.summary = [critical |-> 0, high |-> 1, medium |-> 0, low |-> 0]

\* C20: every successful scan response carries an actionPlan field whose
\* value is the ordered list of the plan's step strings, which is what the
\* client shows as the action plan whenever the plan has steps.
C20_ActionPlanIsStepList ==
  \A r \in Requests :
    response[r].status = 200
      => /\ actionPlanOf(response[r]) = arrayValue(response[r].plan.steps)
         /\ Len(response[r].plan.steps) > 0
              => renderActionPlan(actionPlanOf(response[r])) = response[r].plan.steps

\* the stages of the pipeline, as the handler's calls in trace
StageOrder == <<"mkdtemp", "clone", "scan", "parse", "normalize", "plan">>

StagesOf(events) ==
  SelectSeq(events, LAMBDA e : \E i \in 1..Len(StageOrder) : StageOrder[i] = e)

\* C21: the stages a request has gone through are always a prefix of
\* workspace creation, clone, scan, parse, normalization, planning, so none
\* is repeated or taken out of order; the scanner is started only when the
\* clone did not fail, the output is parsed only when the scanner exited
\* normally or left something on standard output, normalization runs only on
\* output that parsed and reports no error, and the planner is called only
\* when normalization did not throw.
C21_LinearStages ==
  \A r \in Requests :
    LET stages == StagesOf(trace[r])
        parsed == JSONparse(scanOutput[r])
    IN /\ stages = SubSeq(StageOrder, 1, Len(stages))
       /\ Has(trace[r], "scan")
            => /\ ~IsCloneFailure(response[r])
               /\ ~Finished(r) => cloneErr[r] = ""
       /\ (Has(trace[r], "parse") /\ ~Finished(r))
            => /\ exec[r].settled
               /\ exec[r].exitOk \/ exec[r].stdout # ""
               /\ scanOutput[r] = exec[r].stdout
       /\ Has(trace[r], "parse") => ~IsScanFailure(response[r])
       /\ (Has(trace[r], "normalize") /\ ~Finished(r))
            => /\ parsed.ok
               /\ parsed.value.isNull
                    \/ (parsed.value.error = "" /\ parsed.value.userMessage = "")
       /\ Has(trace[r], "normalize") => ~IsToolError(response[r])
       /\ (Has(trace[r], "plan") /\ ~Finished(r))
            => \A i \in 1..Len(rawIssues(parsed.value)) :
                 ~rawIssues(parsed.value)[i].isNull

\* a request has gone through all six stages, each once, and was answered 200
C21_Witness ==
  \E r \in Requests :
    /\ pc[r] = "finally" /\ response[r].status = 200
    /\ StagesOf(trace[r]) = StageOrder
    /\ Count(trace[r], "clone") = 1 /\ Count(trace[r], "scan") = 1

\* C22: when cleanUpDir returns, whether fs.rm removed the workspace or
\* failed, the request has its response, and that response is fixed by what
\* happened before the removal: after the finally block it is the response
\* already sent, after an early return it is the 400 clone-failure answer
\* with the clone error or the 500 scan-failure answer with the scanner's
\* stderr (or the exec error message).
C22_RemovalFailureNotEscalated ==
  [][ \A r \in Requests :
        (pc[r] \in {"cleanup", "finally"} /\ pc'[r] # pc[r])
          => /\ pc'[r] = "done"
             /\ response'[r].status # 0
             /\ pc[r] = "finally" => response'[r] = response[r]
             /\ pc[r] = "cleanup" =>
                  response'[r] =
                    IF cloneErr[r] # ""
                    THEN [status |-> 400, error |-> "Failed to clone repository.",
                          details |-> cloneErr[r], hasRaw |-> FALSE, rawOutput |-> "",
                          plan |-> NullPlan]
                    ELSE [status |-> 500, error |-> "Snyk scan failed.",
                          details |-> buildHelpfulErrorDetail(
                                        IF exec[r].stderr # "" THEN exec[r].stderr
                                        ELSE ExecMessage),
                          hasRaw |-> FALSE, rawOutput |-> "", plan |-> NullPlan] ]_vars

\* the removal of a workspace failed after a failed clone, and the request
\* was answered with the clone failure all the same
C22_Witness ==
  \E r \in Requests :
    /\ pc[r] = "done" /\ warned[r] /\ dirExists[r]
    /\ response[r].status = 400 /\ IsCloneFailure(response[r])

\* C23: no request is ever sent two responses, and every request whose
\* handler has come to its end, on whatever path (invalid input and a failed
\* fs.mkdtemp included), has been sent exactly one.
C23_ExactlyOneResponse ==
  \A r \in Requests :
    /\ Count(trace[r], "respond") <= 1
    /\ Finished(r) => /\ Count(trace[r], "respond") = 1
                       /\ response[r].status # 0

\* C24: the .catch handler of a creation runs only while the handle still
\* refers to that creation, and it is the only thing that ever takes a
\* creation out of the handle: in every step of every interleaving, a
\* creation the handle stops referring to is one that has just failed, never
\* one that is pending or has produced the agent.
C24_ResetOnlyOwnHandle ==
  [][ \A p \in Requests :
        /\ (promiseState[p] = "rejected" /\ promiseState'[p] = "null")
             => (agentPromise = p /\ agentPromise' = 0)
        /\ (agentPromise = p /\ agentPromise' # p)
             => /\ promiseState[p] = "rejected"
                /\ promiseState'[p] = "null"
                /\ \A q \in Requests : promiseState[q] \notin {"pending", "agent"} ]_vars

\* the first creation failed and its handler cleared the handle; a second
\* creation, issued afterwards, is in flight under the handle
C24_Witness ==
  /\ promiseState[1] = "null"
  /\ agentPromise = 2
  /\ promiseState[2] = "pending"

\* the scanner output of r parsed as JSON and carries no error or userMessage
ParsedClean(r) ==
  /\ JSONparse(scanOutput[r]).ok
  /\ parsedOf(r).isNull \/ (parsedOf(r).error = "" /\ parsedOf(r).userMessage = "")

\* the findings of r's output hold a null entry, on which formatSnykPayload
\* raises a TypeError
HasNullEntry(r) ==
  \E i \in 1..Len(rawIssues(parsedOf(r))) : rawIssues(parsedOf(r))[i].isNull

\* C25: once the scanner output has parsed as JSON without error or
\* userMessage, the parse/plan try statement ends either with the 200
\* response or, when formatSnykPayload or generate threw, with the 500
\* 'Unable to parse Snyk output.' response carrying the raw output; the
\* handler's promise never rejects there, cleanUpDir is invoked right after
\* the response, and the workspace is gone at the end unless its removal
\* failed.
C25_ExceptionsBecomeParseFailure ==
  \A r \in Requests :
    /\ (pc[r] = "finally" /\ ParsedClean(r))
         => /\ \/ response[r].status = 200
               \/ /\ response[r].status = 500
                  /\ IsParseFailure(response[r])
                  /\ response[r].hasRaw
                  /\ response[r].rawOutput = scanOutput[r]
            /\ HasNullEntry(r)
                 => /\ response[r].status = 500
                    /\ ~Has(trace[r], "plan")
            /\ cleanUpDirCalled(trace[r])
    /\ Has(trace[r], "normalize")
         => /\ pc[r] # "rejected"
            /\ Finished(r) => /\ response[r].status \in {200, 500}
                               /\ Count(trace[r], "cleanup") = 1
                               /\ dirExists[r] <=> warned[r]

\* generate threw for a report that had been normalized: the request was
\* answered 500 with the raw output and cleanUpDir is running
C25_Witness ==
  \E r \in Requests :
    /\ pc[r] = "finally" /\ ParsedClean(r) /\ Has(trace[r], "plan")
    /\ response[r].status = 500 /\ response[r].rawOutput = scanOutput[r]
    /\ cleanUpDirCalled(trace[r])

====
